---- MODULE Spec2Model ----
(***************************************************************************)
(* A model of dices-rs: the command compiler (src/compiler/mod.rs), which  *)
(* resolves aliases and macros of the command registry into an Action, and *)
(* the dice grammar parser (src/dice/parse.rs) and the rolling of dice     *)
(* (src/dice/mod.rs, src/dice/result.rs, src/dice/internal.rs), and the    *)
(* engine that loads the registry and runs the input loop                  *)
(* (src/engine/mod.rs).                                                    *)
(*                                                                         *)
(* Text is modelled as a sequence of one-character strings, so that the    *)
(* tokenisers work on characters as nom's parsers do.                      *)
(***************************************************************************)
EXTENDS Integers, Sequences, FiniteSets, TLC

VARIABLES
    cmds,       \* Compiler.cmds: the registry, name -> Command
    pc,         \* "idle" | "recurse" | "done": position of the compile call
    line,       \* the input given to the running (or last) compile call
    input,      \* recurse's `input` argument for the next invocation
    max,        \* recurse's `max: Option<usize>` argument
    seen,       \* compile's `seen: HashSet<String>`
    action,     \* the Action returned by the last compile call
    lookups,    \* number of registry lookups made by the current call
    visited,    \* the names looked up by the current call, in order
    memo,       \* an earlier finished call, remembered: [line, action]
    overflowChecks, \* the build: TRUE when integer overflow panics (debug), FALSE when it wraps
    dparts,     \* the dice expression to parse, by parts: [count, sep, size, bonus]
    dpc,        \* "ready" | "parsed"
    grammar,    \* the grammar the expression was parsed with: "dice" | "open"
    dresult,    \* what the parser returned
    usizeSum,   \* the build: TRUE when Res.sum is a usize, FALSE when it is an isize
    rpc,        \* "idle" | "rolling" | "done" | "added" | "error" | "panic": position of the roll
    single,     \* TRUE when Dice::roll is called on one dice, FALSE for DiceSet::roll
    terms,      \* the dice being rolled: the DiceSet's Vec<Dice>, or the one dice
    pos,        \* the term DiceSet::roll's iterator is at
    racc,       \* DiceSet::roll: `acc` of the fold
    rdie,       \* Dice::roll: `r`, the Res of the dice being rolled
    rolli,      \* internal_roll: `i`
    overrun,    \* TRUE when an open dice rolled more often than rdie.list records
    operands,   \* Res::add: the two results of the last `a + b`
    lpc,        \* "startup" | "readline" | "compile" | "execute" | "ended": position of Engine::run
    merged,     \* the lists of commands given to Engine::merge, in the order of the calls
    rline,      \* Engine::run: `line`, the trimmed line that was read
    nlines,     \* the number of lines Engine::run has read
    ending      \* what ended the loop of Engine::run

compilerVars == <<cmds, pc, line, input, max, seen, action, lookups, visited, memo>>

diceVars == <<overflowChecks, dparts, dpc, grammar, dresult>>

rollVars == <<usizeSum, rpc, single, terms, pos, racc, rdie, rolli, overrun>>

runVars == <<operands, lpc, merged, rline, nlines, ending>>

vars == <<compilerVars, diceVars, rollVars, runVars>>

\* ------------------------------------------------------------------ bounds

\* Longest chain of user macros/aliases in a registry.
MaxChain == 11

\* Largest count of dice written out in a dice expression.
MaxCount == 99

\* Largest size of the dice that are rolled.
MaxSize == 6

\* Most dice in a DiceSet that is rolled.
MaxDice == 3

\* The rolls of one open dice that are recorded: later ones are made, compared
\* with the size and not recorded.
MaxRolls == 3

\* Most calls of Engine::merge at startup.
MaxMerges == 2

\* Most lines that Engine::run reads.
MaxLines == 2

\* ------------------------------------------------------------------ text

Digits == {"0", "1", "2", "3", "4", "5", "6", "7", "8", "9"}

LowerCase ==
    {"a", "b", "c", "d", "e", "f", "g", "h", "i", "j", "k", "l", "m",
     "n", "o", "p", "q", "r", "s", "t", "u", "v", "w", "x", "y", "z"}

UpperCase ==
    {"A", "B", "C", "D", "E", "F", "G", "H", "I", "J", "K", "L", "M",
     "N", "O", "P", "Q", "R", "S", "T", "U", "V", "W", "X", "Y", "Z"}

\* nom's is_alphanum on a char: ASCII letter or decimal digit.
IsAlphanumeric(c) == c \in LowerCase \cup UpperCase \cup Digits

\* Rest of a text from position k+1 on.
Drop(s, k) == SubSeq(s, k + 1, Len(s))

\* Length of the longest prefix of s made of characters satisfying IsAlphanumeric.
AlnumPrefixLen(s) ==
    CHOOSE k \in 0..Len(s) :
        /\ \A i \in 1..k : IsAlphanumeric(s[i])
        /\ (k = Len(s) \/ ~IsAlphanumeric(s[k + 1]))

\* usize -> decimal text, as format!/to_string do.
DigitChar(d) ==
    CASE d = 0 -> "0" [] d = 1 -> "1" [] d = 2 -> "2" [] d = 3 -> "3" [] d = 4 -> "4"
      [] d = 5 -> "5" [] d = 6 -> "6" [] d = 7 -> "7" [] d = 8 -> "8" [] d = 9 -> "9"

RECURSIVE DecimalText(_)
DecimalText(n) ==
    IF n < 10 THEN <<DigitChar(n)>> ELSE DecimalText(n \div 10) \o <<DigitChar(n % 10)>>

\* ------------------------------------------------------------------ commands

NoText == <<>>

\* engine::Command, one record shape for every variant.
Macro(name, cmd) == [type |-> "Macro", name |-> name, cmd |-> cmd, op |-> "none"]
Alias(name, cmd) == [type |-> "Alias", name |-> name, cmd |-> cmd, op |-> "none"]
Builtin(name, op) == [type |-> "Builtin", name |-> name, cmd |-> NoText, op |-> op]
Special(type) == [type |-> type, name |-> NoText, cmd |-> NoText, op |-> "none"]

NoCommand == Special("none")

\* compiler::Action. Error carries the message of the eyre error: its kind, and
\* the text the message is formatted with.
Execute(command, text) == [kind |-> "Execute", cmd |-> command, text |-> text, err |-> "none"]
Control(kind) == [kind |-> kind, cmd |-> NoCommand, text |-> NoText, err |-> "none"]
Error(err, text) == [kind |-> "Error", cmd |-> NoCommand, text |-> text, err |-> err]

NoAction == Control("none")

\* The error messages of the compiler.
InvalidCommand == "invalid command"
UnknownCommand == "unknown command"
CycleDetected == "recursion cycle detected for command"
InvalidBuiltin == "impossible in recurse"
MaxRecursionReached == "max recursion level reached for"

\* Option<usize>
None == [some |-> FALSE, val |-> 0]
Some(n) == [some |-> TRUE, val |-> n]

\* ------------------------------------------------------------------ registry

dice == <<"d", "i", "c", "e">>
open == <<"o", "p", "e", "n">>
exit == <<"e", "x", "i", "t">>
list == <<"l", "i", "s", "t">>
aliases == <<"a", "l", "i", "a", "s", "e", "s">>
macros == <<"m", "a", "c", "r", "o", "s">>

\* Engine::builtin_commands: the table of commands.yaml.
builtin_commands ==
    (dice :> Builtin(dice, "Dice")) @@ (open :> Builtin(open, "Open"))
    @@ (exit :> Special("Exit")) @@ (list :> Special("List"))
    @@ (aliases :> Special("Aliases")) @@ (macros :> Special("Macros"))

\* A merge that inserts under the names that are not bound yet.
RECURSIVE mergeUnbound(_, _)
mergeUnbound(registry, entries) ==
    IF entries = <<>> THEN registry
    ELSE LET a == Head(entries)
             next == IF a.type \in {"Macro", "Alias"} /\ a.name \notin DOMAIN registry
                     THEN registry @@ (a.name :> a)
                     ELSE registry
         IN mergeUnbound(next, Tail(entries))

\* Engine::merge: every Macro or Alias of the list is inserted under its name,
\* replacing what the name was bound to; other commands are skipped.
RECURSIVE merge(_, _)
merge(registry, entries) ==
    IF entries = <<>> THEN registry
    ELSE LET a == Head(entries)
             next == IF a.type \in {"Macro", "Alias"}
                     THEN [n \in DOMAIN registry \cup {a.name} |->
                              IF n = a.name THEN a ELSE registry[n]]
                     ELSE registry
         IN merge(next, Tail(entries))

\* ---- the registries the compiler is run on

rem == <<"r", "e", "m">>
frobnicate == <<"f", "r", "o", "b", "n", "i", "c", "a", "t", "e">>
EXIT == <<"E", "X", "I", "T">>
mouv == <<"m", "o", "u", "v">>
move == <<"m", "o", "v", "e">>

\* The i-th user command of a chain: m1, m2, ...
ChainName(i) == <<"m">> \o DecimalText(i)

\* The built-in table plus a name bound to Comment.
BaseRegistry == builtin_commands @@ (rem :> Special("Comment"))

\* What the body of the last command of a chain can start with: a bound name of
\* every kind, an unbound name, no name at all.
FixedTargets ==
    {dice, open, exit, list, aliases, macros, rem, frobnicate, EXIT, NoText, <<"+", "2">>}

\* Aliases carry a bare name, macros a name followed by arguments.
ChainBody(style, target) ==
    IF style = "Alias" THEN target ELSE target \o <<" ", "+", "7">>

ChainCommand(style, name, target) ==
    IF style = "Alias" THEN Alias(name, ChainBody(style, target))
    ELSE Macro(name, ChainBody(style, target))

\* m1 -> m2 -> ... -> mn -> target
ChainEntries(style, n, target) ==
    [i \in 1..n |->
        ChainCommand(style, ChainName(i), IF i < n THEN ChainName(i + 1) ELSE target)]

ChainRegistries ==
    {merge(BaseRegistry, ChainEntries(style, n, target)) :
        style \in {"Alias", "Macro"},
        n \in 0..MaxChain,
        target \in FixedTargets \cup {ChainName(j) : j \in 1..MaxChain}}

\* mouv = "move +7", move = "dice 3D6 -9"
MouvRegistry ==
    merge(BaseRegistry,
          <<Alias(mouv, move \o <<" ", "+", "7">>),
            Macro(move, dice \o <<" ", "3", "D", "6", " ", "-", "9">>)>>)

\* A -> B, B -> A, and S -> S
CycleRegistry ==
    merge(BaseRegistry, <<Alias(<<"A">>, <<"B">>), Alias(<<"B">>, <<"A">>), Alias(<<"S">>, <<"S">>)>>)

Registries == ChainRegistries \cup {MouvRegistry, CycleRegistry}

\* The lines given to compile: a leading token (or none) and arguments.
LineHeads == {ChainName(1), dice, exit, list, rem, frobnicate, EXIT, mouv, <<"A">>, <<"S">>, NoText}

LineArgs == {NoText, <<" ", "+", "1">>}

Lines == {h \o a : h \in LineHeads, a \in LineArgs} \ {NoText}

\* The lines of the sequences of calls.
CallLines ==
    {ChainName(1), ChainName(1) \o <<" ", "+", "1">>, dice, exit, frobnicate,
     mouv \o <<" ", "+", "1">>, <<"A">>}

\* The lines of the calls that differ by their arguments.
ArgHeads == {ChainName(1), dice, mouv, <<"A">>, NoText}

ArgTexts == {NoText, <<" ", "+", "1">>, <<"+", "2">>}

ArgLines == {h \o a : h \in ArgHeads, a \in ArgTexts} \ {NoText}

\* The registries of these calls: short chains and the longest that resolve.
ArgRegistries ==
    {merge(BaseRegistry, ChainEntries(style, n, target)) :
        style \in {"Alias", "Macro"},
        n \in {1, 2, MaxChain - 2, MaxChain - 1},
        target \in FixedTargets}
    \cup {MouvRegistry, CycleRegistry}

\* ------------------------------------------------------------------ compiler

\* Compiler::MAX_RECUR
MAX_RECUR == 10

\* parse_keyword: alphanumeric1, at least one leading alphanumeric character.
parse_keyword(in) ==
    LET k == AlnumPrefixLen(in)
    IN  IF k = 0 THEN [ok |-> FALSE, rest |-> in, name |-> NoText]
        ELSE [ok |-> TRUE, rest |-> Drop(in, k), name |-> SubSeq(in, 1, k)]

UpperSeq ==
    <<"A", "B", "C", "D", "E", "F", "G", "H", "I", "J", "K", "L", "M",
      "N", "O", "P", "Q", "R", "S", "T", "U", "V", "W", "X", "Y", "Z">>

LowerSeq ==
    <<"a", "b", "c", "d", "e", "f", "g", "h", "i", "j", "k", "l", "m",
      "n", "o", "p", "q", "r", "s", "t", "u", "v", "w", "x", "y", "z">>

ToLower(s) ==
    [i \in 1..Len(s) |->
        IF s[i] \in UpperCase
        THEN LowerSeq[CHOOSE k \in 1..26 : UpperSeq[k] = s[i]]
        ELSE s[i]]

\* A lookup that ignores the case of the name.
GetIgnoreCase(name) ==
    IF ToLower(name) \in DOMAIN cmds THEN cmds[ToLower(name)] ELSE Special("none")

\* self.cmds.get(&name): the key is matched as it is.
Get(name) == IF name \in DOMAIN cmds THEN cmds[name] ELSE NoCommand

\* Compiler::parse: the leading keyword, then the command bound to it.
parse(in) ==
    LET kw == parse_keyword(in)
    IN  IF ~kw.ok
        THEN [ok |-> FALSE, err |-> InvalidCommand, input |-> NoText, command |-> NoCommand]
        ELSE IF Get(kw.name) = NoCommand
        THEN [ok |-> FALSE, err |-> UnknownCommand, input |-> NoText, command |-> NoCommand]
        ELSE [ok |-> TRUE, err |-> "none", input |-> kw.rest, command |-> Get(kw.name)]

\* recurse, cycle detection: the name of an Alias or Macro, "" for the rest.
CycleName(command) ==
    IF command.type \in {"Alias", "Macro"} THEN command.name ELSE NoText

\* A membership test that never finds the name.
SeenContainsNever(s, name) == FALSE

\* seen.contains(&name)
SeenContains(s, name) == name \in s

\* An insertion that is lost.
SeenInsertNothing(s, name) == s

\* seen.insert(name)
SeenInsert(s, name) == s \cup {name}

\* An expansion that puts the arguments of the line first.
ExpandArgsFirst(command, rest) == rest \o command.cmd

\* An expansion that drops the arguments of the line.
ExpandDropArgs(command, rest) == command.cmd

\* recurse, Alias and Macro arms: cmd + input.as_str()
Expand(command, rest) == command.cmd \o rest

\* Depth checks that are off: never reached, reached one level early.
DepthReachedNever(m) == FALSE

DepthReachedEarly(m) == m <= 1

\* recurse: max -= 1; if max == 0 { return Err(..) }
DepthReached(m) == m = 0

\* A set of seen names that outlives the call.
StaleSeen == seen

\* compile: HashSet::new()
NewSeen == {}

\* A match that makes an Execute of every command.
ToActionExecutesAny(command, text) == Execute(command, text)

\* A match that takes a control command followed by arguments for an error.
ToActionNoArgs(command, text) ==
    CASE command.type = "Builtin" -> Execute(command, text)
      [] command.type \in {"Exit", "List", "Aliases", "Macros"} /\ text = <<>> ->
            Control(command.type)
      [] OTHER -> Error("impossible command", <<>>)

\* compile: the match on the command recurse returned.
ToAction(command, text) ==
    CASE command.type = "Exit" -> Control("Exit")
      [] command.type = "List" -> Control("List")
      [] command.type = "Aliases" -> Control("Aliases")
      [] command.type = "Macros" -> Control("Macros")
      [] command.type = "Macro" -> Error("no macro", NoText)
      [] command.type = "Alias" -> Error("no alias", NoText)
      [] command.type = "Builtin" -> Execute(command, text)
      [] OTHER -> Error("impossible command", NoText)

\* A recurse that returns every command that is not an Alias or a Macro to
\* compile, a Comment as well.
recurseReturnsAny(in, mx, s) ==
    LET m == IF mx.some THEN mx.val ELSE MAX_RECUR
        p == parse(in)
        name == CycleName(p.command)
        s1 == IF name # NoText THEN SeenInsert(s, name) ELSE s
        next == Expand(p.command, p.input)
    IN  IF ~p.ok
        THEN [ret |-> TRUE, action |-> Error(p.err, NoText), input |-> in, max |-> mx, seen |-> s]
        ELSE IF name # NoText /\ SeenContains(s, name)
        THEN [ret |-> TRUE, action |-> Error(CycleDetected, name), input |-> in, max |-> mx, seen |-> s]
        ELSE IF p.command.type \notin {"Alias", "Macro"}
        THEN [ret |-> TRUE, action |-> ToAction(p.command, p.input), input |-> in, max |-> mx, seen |-> s1]
        ELSE IF DepthReached(m - 1)
        THEN [ret |-> TRUE, action |-> Error(MaxRecursionReached, next), input |-> in, max |-> mx, seen |-> s1]
        ELSE [ret |-> FALSE, action |-> NoAction, input |-> next, max |-> Some(m - 1), seen |-> s1]

\* One invocation of recurse(input, max, seen): either it returns (ret is the
\* Action compile makes of it) or it calls itself with (input, max).
recurse(in, mx, s) ==
    LET m == IF mx.some THEN mx.val ELSE MAX_RECUR
        p == parse(in)
        name == CycleName(p.command)
        s1 == IF name # NoText THEN SeenInsert(s, name) ELSE s
        next == Expand(p.command, p.input)
    IN  IF ~p.ok
        THEN [ret |-> TRUE, action |-> Error(p.err, NoText), input |-> in, max |-> mx, seen |-> s]
        ELSE IF name # NoText /\ SeenContains(s, name)
        THEN [ret |-> TRUE, action |-> Error(CycleDetected, name), input |-> in, max |-> mx, seen |-> s]
        ELSE IF p.command.type \in {"Builtin", "List", "Exit", "Aliases", "Macros"}
        THEN [ret |-> TRUE, action |-> ToAction(p.command, p.input), input |-> in, max |-> mx, seen |-> s1]
        ELSE IF p.command.type \notin {"Alias", "Macro"}
        THEN [ret |-> TRUE, action |-> Error(InvalidBuiltin, NoText), input |-> in, max |-> mx, seen |-> s1]
        ELSE IF DepthReached(m - 1)
        THEN [ret |-> TRUE, action |-> Error(MaxRecursionReached, next), input |-> in, max |-> mx, seen |-> s1]
        ELSE [ret |-> FALSE, action |-> NoAction, input |-> next, max |-> Some(m - 1), seen |-> s1]

NoMemo == [line |-> NoText, action |-> NoAction, visited |-> <<>>]

\* compile(input) is called: a fresh `seen`, then recurse(input, None, &mut seen).
Compile(l) ==
    /\ pc \in {"idle", "done"}
    /\ pc' = "recurse"
    /\ line' = l
    /\ input' = l
    /\ max' = None
    /\ seen' = NewSeen
    /\ action' = NoAction
    /\ lookups' = 0
    /\ visited' = <<>>
    /\ UNCHANGED <<cmds, memo>>
    /\ UNCHANGED diceVars
    /\ UNCHANGED rollVars
    /\ UNCHANGED runVars

\* The pending invocation of recurse runs.
Recurse ==
    /\ pc = "recurse"
    /\ LET r == recurse(input, max, seen)
           kw == parse_keyword(input)
       IN  /\ pc' = IF r.ret THEN "done" ELSE "recurse"
           /\ action' = r.action
           /\ input' = r.input
           /\ max' = r.max
           /\ seen' = r.seen
           /\ lookups' = IF kw.ok THEN lookups + 1 ELSE lookups
           /\ visited' = IF kw.ok THEN Append(visited, kw.name) ELSE visited
    /\ UNCHANGED <<cmds, line, memo>>
    /\ UNCHANGED diceVars
    /\ UNCHANGED rollVars
    /\ UNCHANGED runVars

\* The call that just returned is remembered, to be compared with later calls.
Remember ==
    /\ pc = "done"
    /\ memo' = [line |-> line, action |-> action, visited |-> visited]
    /\ UNCHANGED <<cmds, pc, line, input, max, seen, action, lookups, visited>>
    /\ UNCHANGED diceVars
    /\ UNCHANGED rollVars
    /\ UNCHANGED runVars

\* ------------------------------------------------------------------ dice parser

\* A parser's result: "Ok" with the rest of the input and a value, "Err" when
\* the input does not match, "Panic" when the parser aborts.
Ok(rest, val) == [status |-> "Ok", rest |-> rest, val |-> val]
Err(in) == [status |-> "Err", rest |-> in, val |-> 0]
Panic(in) == [status |-> "Panic", rest |-> in, val |-> 0]

\* dice::Dice
Regular(n) == [type |-> "Regular", n |-> n]
Open(n) == [type |-> "Open", n |-> n]
Bonus(b) == [type |-> "Bonus", n |-> b]
Constant(n) == [type |-> "Constant", n |-> n]

\* The largest u8 and u32, in decimal digits (TLC's integers are narrower than u32).
U8_MAX == <<"2", "5", "5">>
U32_MAX == <<"4", "2", "9", "4", "9", "6", "7", "2", "9", "5">>

I8_MAX == 127
I8_MIN == -128

DigitPrefixLen(s) ==
    CHOOSE k \in 0..Len(s) :
        /\ \A i \in 1..k : s[i] \in Digits
        /\ (k = Len(s) \/ s[k + 1] \notin Digits)

\* space0: spaces and tabs.
SpacePrefixLen(s) ==
    CHOOSE k \in 0..Len(s) :
        /\ \A i \in 1..k : s[i] \in {" ", "\t"}
        /\ (k = Len(s) \/ s[k + 1] \notin {" ", "\t"})

DigitValue(c) == CHOOSE d \in 0..9 : DigitChar(d) = c

RECURSIVE DecimalValue(_)
DecimalValue(ds) ==
    IF ds = <<>> THEN 0
    ELSE 10 * DecimalValue(SubSeq(ds, 1, Len(ds) - 1)) + DigitValue(ds[Len(ds)])

RECURSIVE StripZeros(_)
StripZeros(ds) ==
    IF ds # <<>> /\ Head(ds) = "0" THEN StripZeros(Tail(ds)) ELSE ds

\* Whether the number written ds is above the number written maxval: the
\* outcome of checked_mul(10) and checked_add(digit) over the digits.
Exceeds(ds, maxval) ==
    LET t == StripZeros(ds)
    IN  \/ Len(t) > Len(maxval)
        \/ /\ Len(t) = Len(maxval)
           /\ \E i \in 1..Len(t) :
                 /\ DigitValue(t[i]) > DigitValue(maxval[i])
                 /\ \A j \in 1..(i - 1) : t[j] = maxval[j]

\* nom's unsigned integer parsers: the leading digits, at least one, with
\* checked arithmetic: a value above the type's maximum is an error.
Unsigned(in, maxval) ==
    LET k == DigitPrefixLen(in)
    IN  IF k = 0 THEN Err(in)
        ELSE IF Exceeds(SubSeq(in, 1, k), maxval) THEN Err(in)
        ELSE Ok(Drop(in, k), DecimalValue(SubSeq(in, 1, k)))

u8(in) == Unsigned(in, U8_MAX)

u32(in) == Unsigned(in, U32_MAX)

\* nom's i8: an optional sign of its own, then digits, with checked arithmetic.
i8(in) ==
    LET signed == in # <<>> /\ Head(in) \in {"+", "-"}
        negative == in # <<>> /\ Head(in) = "-"
        body == IF signed THEN Tail(in) ELSE in
        k == DigitPrefixLen(body)
        digits == SubSeq(body, 1, k)
    IN  IF k = 0 THEN Err(in)
        ELSE IF Len(StripZeros(digits)) > 3 THEN Err(in)
        ELSE IF negative
        THEN (IF -DecimalValue(digits) < I8_MIN THEN Err(in)
              ELSE Ok(Drop(body, k), -DecimalValue(digits)))
        ELSE (IF DecimalValue(digits) > I8_MAX THEN Err(in)
              ELSE Ok(Drop(body, k), DecimalValue(digits)))

\* An i8 result that left the range: a panic with overflow checks, the value
\* modulo 2^8 without.
Overflow8(in, rest, v) ==
    IF v >= I8_MIN /\ v <= I8_MAX THEN Ok(rest, v)
    ELSE IF overflowChecks THEN Panic(in)
    ELSE Ok(rest, ((v - I8_MIN) % 256) + I8_MIN)

\* A separator that has to be upper case.
OneOfUpperD(c) == c = "D"

\* one_of("dD")
OneOfdD(c) == c \in {"d", "D"}

\* parse_dice: [dD] and the size.
parse_dice(in) ==
    IF in = <<>> \/ ~OneOfdD(Head(in)) THEN Err(in)
    ELSE LET r == u32(Tail(in))
         IN  IF r.status # "Ok" THEN Err(in) ELSE Ok(r.rest, Regular(r.val))

\* parse_open: [dD] and the size, as a set of one open dice.
parse_open(in) ==
    IF in = <<>> \/ ~OneOfdD(Head(in)) THEN Err(in)
    ELSE LET r == u32(Tail(in))
         IN  IF r.status # "Ok" THEN Err(in) ELSE Ok(r.rest, <<Open(r.val)>>)

\* A default count of none.
UnwrapOrZero(r) == IF r.status = "Ok" THEN r.val ELSE 0

\* n.unwrap_or(1) on the result of opt(u8)
UnwrapOrOne(r) == IF r.status = "Ok" THEN r.val ELSE 1

\* parse_ndices: an optional count, a dice; the dice is copied count times.
parse_ndices(in) ==
    LET c == u8(in)
        d == parse_dice(IF c.status = "Ok" THEN c.rest ELSE in)
    IN  IF d.status # "Ok" THEN Err(in)
        ELSE Ok(d.rest, [i \in 1..UnwrapOrOne(c) |-> d.val])

\* parse_bonus: a sign and an i8; '-' negates it.
parse_bonus(in) ==
    IF in = <<>> \/ Head(in) \notin {"+", "-"} THEN Err(in)
    ELSE LET r == i8(Tail(in))
         IN  IF r.status # "Ok" THEN Err(in)
             ELSE IF Head(in) = "-" THEN Overflow8(in, r.rest, -r.val)
             ELSE Ok(r.rest, r.val)

\* fold_many0(preceded(space0, parse_bonus), ..): the bonuses, until one fails.
RECURSIVE fold_many0(_, _)
fold_many0(in, acc) ==
    LET r == parse_bonus(Drop(in, SpacePrefixLen(in)))
    IN  IF r.status = "Err" THEN Ok(in, acc)
        ELSE IF r.status = "Panic" THEN Panic(in)
        ELSE fold_many0(r.rest, Append(acc, r.val))

\* v.iter().sum1().unwrap_or(0): the i8 values are added from the left.
RECURSIVE sum(_, _, _)
sum(in, v, acc) ==
    IF v = <<>> THEN Ok(in, acc)
    ELSE LET r == Overflow8(in, in, acc + Head(v))
         IN  IF r.status # "Ok" THEN r ELSE sum(in, Tail(v), r.val)

\* parse_nbonus: the sum of the bonuses.
parse_nbonus(in) ==
    LET r == fold_many0(in, <<>>)
    IN  IF r.status # "Ok" THEN r ELSE sum(r.rest, r.val, 0)

\* add_bonus: a Bonus is pushed when it is not zero.
add_bonus(ds, b) == IF b # 0 THEN Append(ds, Bonus(b)) ELSE ds

\* parse_with_bonus: pair(parse_ndices, parse_nbonus), then add_bonus.
parse_with_bonus(in) ==
    LET d == parse_ndices(in)
        b == parse_nbonus(d.rest)
    IN  IF d.status # "Ok" THEN Err(in)
        ELSE IF b.status # "Ok" THEN [b EXCEPT !.rest = in]
        ELSE Ok(b.rest, add_bonus(d.val, b.val))

\* parse_open_bonus: pair(parse_open, parse_nbonus), then add_bonus.
parse_open_bonus(in) ==
    LET d == parse_open(in)
        b == parse_nbonus(d.rest)
    IN  IF d.status # "Ok" THEN Err(in)
        ELSE IF b.status # "Ok" THEN [b EXCEPT !.rest = in]
        ELSE Ok(b.rest, add_bonus(d.val, b.val))

\* What a caller gets: the DiceSet, or the failure; the rest of the input is
\* not looked at.
Outcome(r) == [status |-> r.status, ds |-> IF r.status = "Ok" THEN r.val ELSE <<>>]

\* DiceSet::parse
DiceSetParse(in) == Outcome(parse_with_bonus(in))

NoOutcome == [status |-> "none", ds |-> <<>>]

\* ---- the dice expressions the parser is run on

CountTexts ==
    {NoText, <<"2", "5", "5">>, <<"2", "5", "6">>} \cup {DecimalText(n) : n \in 0..MaxCount}

SepTexts == {<<"D">>, <<"d">>, NoText}

SizeTexts ==
    {<<"6">>, <<"0">>, <<"1", "0", "0">>, NoText,
     <<"2", "1", "4", "7", "4", "8", "3", "6", "4", "7">>,
     <<"4", "2", "9", "4", "9", "6", "7", "2", "9", "6">>}

\* Lists of bonus terms, each within i8, and the way they are written: each
\* term after a space, with its sign.
BonusLists ==
    {<<>>, <<1>>, <<2, 1>>, <<1, 2, -3>>, <<-2>>, <<0>>, <<100, 100>>,
     <<100, 100, -100, -100>>}

RECURSIVE BonusText(_)
BonusText(bs) ==
    IF bs = <<>> THEN <<>>
    ELSE <<" ", IF Head(bs) < 0 THEN "-" ELSE "+">>
         \o DecimalText(IF Head(bs) < 0 THEN -Head(bs) ELSE Head(bs))
         \o BonusText(Tail(bs))

\* The bonus lists as texts, and texts that are no list of bonus terms.
BonusTexts ==
    {BonusText(bs) : bs \in BonusLists}
    \cup {<<"+", "0">>, <<" ", "f", "o", "o">>, <<" ", "-", "-", "1", "2", "8">>}

DiceParts == [count : CountTexts, sep : SepTexts, size : SizeTexts, bonus : BonusTexts]

TextOf(parts) == parts.count \o parts.sep \o parts.size \o parts.bonus

\* DiceSet::parse(s) is called on the expression.
ParseDice ==
    /\ dpc = "ready"
    /\ dpc' = "parsed"
    /\ grammar' = "dice"
    /\ dresult' = DiceSetParse(TextOf(dparts))
    /\ UNCHANGED <<overflowChecks, dparts>>
    /\ UNCHANGED compilerVars
    /\ UNCHANGED rollVars
    /\ UNCHANGED runVars

\* parse_open_bonus(s) is called on the expression.
ParseOpen ==
    /\ dpc = "ready"
    /\ dpc' = "parsed"
    /\ grammar' = "open"
    /\ dresult' = Outcome(parse_open_bonus(TextOf(dparts)))
    /\ UNCHANGED <<overflowChecks, dparts>>
    /\ UNCHANGED compilerVars
    /\ UNCHANGED rollVars
    /\ UNCHANGED runVars

\* ------------------------------------------------------------------ rolling

\* Res::new
new == [list |-> <<>>, sum |-> 0, bonus |-> 0, flag |-> "None"]

\* Res::append: the value is pushed and added to sum.
append(res, v) == [res EXCEPT !.list = Append(@, v), !.sum = @ + v]

\* sum is kept as the signed reading of its 64 bits (TLC's integers are narrower
\* than 2^64): in a build where it is a usize, which is what `s as usize` and the
\* comparisons of dice/mod.rs need, a negative value stands for 2^64 more.
\* a + b leaves the usize range when both are that large, or when one is and
\* the signed sum is not negative.
UsizeOverflows(a, b) ==
    IF a < 0 /\ b < 0 THEN TRUE
    ELSE IF a < 0 \/ b < 0 THEN a + b >= 0
    ELSE FALSE

\* self.sum + rhs.sum of Res::add panics: a usize sum, with overflow checks.
AddPanics(a, rhs) == overflowChecks /\ usizeSum /\ UsizeOverflows(a.sum, rhs.sum)

\* impl Add for Res: the lists one after the other, the sums and the bonuses
\* added (the sum modulo 2^64), the flag None.
add(a, rhs) ==
    [list |-> a.list \o rhs.list,
     sum |-> a.sum + rhs.sum,
     bonus |-> a.bonus + rhs.bonus,
     flag |-> "None"]

\* A constant that is not pushed to the list.
ConstantArmNoAppend(s) == [new EXCEPT !.sum = @ + s]

\* Dice::roll, Constant: r.append(s)
ConstantArm(s) == append(new, s)

\* A bonus that is kept out of sum.
BonusArmNoSum(s) == [new EXCEPT !.bonus = s]

\* Dice::roll, Bonus: r.sum += s as usize; r.bonus = s
BonusArm(s) == [new EXCEPT !.sum = @ + s, !.bonus = s]

\* A flag that is Natural for every roll.
FlagAlwaysNatural(v) == "Natural"

\* Dice::roll, Regular: the flag of the roll, Fumble for 1.
Flag(v) == IF v = 1 THEN "Fumble" ELSE "Natural"

\* Dice::roll, Regular: the flag is set and the roll appended.
RegularArm(v) == append([new EXCEPT !.flag = Flag(v)], v)

\* An open dice that is rolled once.
BreakAlways(res, s) == TRUE

\* Dice::roll, Open: if res != s { break; }
Break(res, s) == res # s

\* The arms of Dice::roll that draw nothing.
roll(d) == IF d.type = "Constant" THEN ConstantArm(d.n) ELSE BonusArm(d.n)

Draws(d) == d.type \in {"Regular", "Open"}

\* A coin that can fall either way whatever p is.
biased_diceFails(sides, it) == {TRUE, FALSE}

\* biased_dice(1.0 / (sides - i) as f64): what `f < p` can be for f in [0, 1).
\* p is 1 for sides - i = 1 and infinite for sides - i = 0.
biased_dice(sides, it) == IF sides - it \in {0, 1} THEN {TRUE} ELSE {TRUE, FALSE}

\* DiceSet::roll: the fold over the terms from term p on, with acc = a, up to
\* the next term that draws: the Res of each term is added to acc.
RECURSIVE fold(_, _, _)
fold(ts, p, a) ==
    IF p > Len(ts) THEN [rpc |-> "done", pos |-> p, racc |-> a]
    ELSE IF Draws(ts[p]) THEN [rpc |-> "rolling", pos |-> p, racc |-> a]
    ELSE IF AddPanics(a, roll(ts[p])) THEN [rpc |-> "panic", pos |-> p, racc |-> a]
    ELSE fold(ts, p + 1, add(a, roll(ts[p])))

\* Dice::roll is called on the dice d.
DiceRoll(d) ==
    /\ rpc = "idle"
    /\ dpc = "ready"
    /\ single' = TRUE
    /\ terms' = <<d>>
    /\ pos' = 1
    /\ rolli' = 0
    /\ rdie' = IF Draws(d) THEN new ELSE roll(d)
    /\ rpc' = IF Draws(d) THEN "rolling" ELSE "done"
    /\ UNCHANGED <<usizeSum, racc, overrun>>
    /\ UNCHANGED compilerVars
    /\ UNCHANGED diceVars
    /\ UNCHANGED runVars

\* DiceSet::roll is called on the set ds.
DiceSetRoll(ds) ==
    /\ rpc = "idle"
    /\ dpc = "ready"
    /\ single' = FALSE
    /\ terms' = ds
    /\ rolli' = 0
    /\ LET st == fold(ds, 1, new)
       IN  /\ rpc' = st.rpc
           /\ pos' = st.pos
           /\ racc' = st.racc
    /\ UNCHANGED <<usizeSum, rdie, overrun>>
    /\ UNCHANGED compilerVars
    /\ UNCHANGED diceVars
    /\ UNCHANGED runVars

\* Cmd::execute(input): the input is parsed after its leading spaces, with the
\* grammar of the command; a parse error is returned, a DiceSet is rolled.
CmdExecute(c, lead, parts) ==
    /\ rpc = "idle"
    /\ dpc = "ready"
    /\ dpc' = "parsed"
    /\ grammar' = c
    /\ dparts' = [parts EXCEPT !.count = lead \o @]
    /\ LET in == lead \o TextOf(parts)
           text == Drop(in, SpacePrefixLen(in))
       IN  dresult' = IF c = "Dice" THEN Outcome(parse_with_bonus(text))
                      ELSE IF c = "Open" THEN Outcome(parse_open(text))
                      ELSE NoOutcome
    /\ terms' = dresult'.ds
    /\ IF dresult'.status = "Ok"
       THEN LET st == fold(terms', 1, new)
            IN  /\ rpc' = st.rpc
                /\ pos' = st.pos
                /\ racc' = st.racc
       ELSE /\ rpc' = IF dresult'.status = "Panic" THEN "panic" ELSE "error"
            /\ UNCHANGED <<pos, racc>>
    /\ single' = FALSE
    /\ rolli' = 0
    /\ UNCHANGED <<overflowChecks, usizeSum, rdie, overrun>>
    /\ UNCHANGED compilerVars
    /\ UNCHANGED runVars

\* One call of biased_dice by internal_roll, with the outcome b. On TRUE
\* internal_roll returns i + 1 to Dice::roll: a regular dice is done, an open
\* dice appends the roll and is done when the roll is not its size. The Res of a
\* dice that is done is returned (Dice::roll) or added to acc, and the fold goes
\* on (DiceSet::roll).
Flip(b) ==
    /\ rpc = "rolling"
    /\ b \in biased_dice(terms[pos].n, rolli)
    /\ IF ~b
       THEN /\ rolli' = rolli + 1
            /\ UNCHANGED <<rpc, pos, racc, rdie, overrun>>
       ELSE LET d == terms[pos]
                v == rolli + 1
                full == d.type = "Open" /\ Len(rdie.list) >= MaxRolls
                rr == IF d.type = "Regular" THEN RegularArm(v)
                      ELSE IF full THEN rdie
                      ELSE append(rdie, v)
                finished == d.type = "Regular" \/ Break(v, d.n)
                st == fold(terms, pos + 1, add(racc, rr))
            IN  /\ rolli' = 0
                /\ overrun' = (overrun \/ full)
                /\ IF ~finished
                   THEN /\ rdie' = rr
                        /\ UNCHANGED <<rpc, pos, racc>>
                   ELSE IF single
                   THEN /\ rdie' = rr
                        /\ rpc' = "done"
                        /\ UNCHANGED <<pos, racc>>
                   ELSE IF AddPanics(racc, rr)
                   THEN /\ rdie' = rr
                        /\ rpc' = "panic"
                        /\ UNCHANGED <<pos, racc>>
                   ELSE /\ rdie' = new
                        /\ rpc' = st.rpc
                        /\ pos' = st.pos
                        /\ racc' = st.racc
    /\ UNCHANGED <<usizeSum, single, terms>>
    /\ UNCHANGED compilerVars
    /\ UNCHANGED diceVars
    /\ UNCHANGED runVars

\* What the roll returned: the Res of the dice, or the fold's acc.
Result == IF single THEN rdie ELSE racc

\* a + rhs is evaluated (impl Add for Res), as test_add does: the sum is in acc.
ResAdd(a, rhs) ==
    /\ rpc = "idle"
    /\ dpc = "ready"
    /\ operands' = <<a, rhs>>
    /\ rpc' = IF AddPanics(a, rhs) THEN "panic" ELSE "added"
    /\ racc' = IF AddPanics(a, rhs) THEN racc ELSE add(a, rhs)
    /\ single' = FALSE
    /\ terms' = <<>>
    /\ UNCHANGED <<usizeSum, pos, rdie, rolli, overrun>>
    /\ UNCHANGED <<lpc, merged, rline, nlines, ending>>
    /\ UNCHANGED compilerVars
    /\ UNCHANGED diceVars

\* ---- the dice that are rolled

BonusValues == {-2, -1, 0, 1, 2}

DiceInputs ==
    {Constant(n) : n \in 0..MaxSize} \cup {Regular(n) : n \in 0..MaxSize}
    \cup {Open(n) : n \in 0..MaxSize} \cup {Bonus(b) : b \in BonusValues}

\* k regular dice of one size with a bonus, and sets with the other dice.
SetInputs ==
    {[j \in 1..k |-> Regular(n)] \o bonus :
        k \in 0..MaxDice, n \in {1, 2, MaxSize}, bonus \in {<<>>, <<Bonus(1)>>, <<Bonus(-1)>>}}
    \cup {<<Constant(4)>>, <<Constant(4), Regular(2)>>, <<Regular(2), Constant(4), Bonus(1)>>,
          <<Bonus(-1), Regular(2)>>, <<Bonus(1), Bonus(2)>>, <<Open(2), Bonus(-1)>>,
          <<Open(3), Open(2)>>, <<Regular(0)>>}

\* The texts Cmd::execute is called with, by parts.
ExecParts ==
    [count : {NoText, <<"3">>},
     sep : {<<"D">>},
     size : {<<"1">>, <<"2">>, <<"6">>, NoText},
     bonus : {NoText, <<" ", "+", "1">>, <<" ", "-", "1">>, <<" ", "f", "o", "o">>,
              <<" ", "+", "1", "0", "0", " ", "+", "1", "0", "0">>}]

\* The texts of open dice of every size.
OpenParts ==
    [count : {NoText},
     sep : {<<"D">>, <<"d">>},
     size : {DecimalText(n) : n \in 0..MaxSize} \cup {NoText},
     bonus : {NoText}]

Leads == {NoText, <<" ">>}

\* The results that are added: what one dice of each kind rolls to, and sums.
ResInputs ==
    {new, RegularArm(1), RegularArm(2), ConstantArm(4), BonusArm(1), BonusArm(-1),
     BonusArm(-2), append(append(new, 2), 1), add(RegularArm(2), BonusArm(1)),
     add(RegularArm(1), RegularArm(1))}

\* ------------------------------------------------------------------ initial values

NoParts == [count |-> NoText, sep |-> NoText, size |-> NoText, bonus |-> NoText]

InitCompiler ==
    /\ pc = "idle"
    /\ line = NoText
    /\ input = NoText
    /\ max = None
    /\ seen = {}
    /\ action = NoAction
    /\ lookups = 0
    /\ visited = <<>>
    /\ memo = NoMemo

InitDice ==
    /\ dpc = "ready"
    /\ grammar = "none"
    /\ dresult = NoOutcome

InitRoll ==
    /\ rpc = "idle"
    /\ single = FALSE
    /\ terms = <<>>
    /\ pos = 1
    /\ racc = new
    /\ rdie = new
    /\ rolli = 0
    /\ overrun = FALSE

\* Before Engine::new: nothing is merged, read or added yet.
InitRun ==
    /\ operands = <<new, new>>
    /\ lpc = "startup"
    /\ merged = <<>>
    /\ rline = NoText
    /\ nlines = 0
    /\ ending = "none"

\* ------------------------------------------------------------------ engine

doom == <<"d", "o", "o", "m">>

\* The lists of commands that are merged, as the loader of an alias file makes
\* them: none; one macro; a name bound twice, with a comment; a name of the
\* built-in table bound to an alias, with a Builtin that merge skips.
AliasLists ==
    {<<>>,
     <<Macro(doom, <<"d", "i", "c", "e", " ", "3", "D", "6">>)>>,
     <<Alias(doom, dice), Special("Comment"), Macro(doom, <<"o", "p", "e", "n", " ", "D", "1">>)>>,
     <<Alias(dice, open), Builtin(exit, "Dice")>>}

\* Engine::merge(aliases), called at startup on the engine Engine::new made.
Merge(es) ==
    /\ lpc = "startup"
    /\ Len(merged) < MaxMerges
    /\ cmds' = merge(cmds, es)
    /\ merged' = Append(merged, es)
    /\ UNCHANGED <<pc, line, input, max, seen, action, lookups, visited, memo>>
    /\ UNCHANGED <<operands, lpc, rline, nlines, ending>>
    /\ UNCHANGED diceVars
    /\ UNCHANGED rollVars

\* A registry that is built anew for every line.
Rebuilt(registry) == builtin_commands

\* Compiler::new(&self.cmds): the loop of run reads the registry through a
\* shared reference, which the compiler holds until run returns.
Borrowed(registry) == registry

\* Engine::run is called: the compiler is made, the loop is entered.
Run ==
    /\ lpc = "startup"
    /\ lpc' = "readline"
    /\ UNCHANGED <<cmds, pc, line, input, max, seen, action, lookups, visited, memo>>
    /\ UNCHANGED <<operands, merged, rline, nlines, ending>>
    /\ UNCHANGED diceVars
    /\ UNCHANGED rollVars

\* str::trim_end, str::trim
RECURSIVE TrimEnd(_)
TrimEnd(s) ==
    IF s = <<>> \/ s[Len(s)] \notin {" ", "\t"} THEN s
    ELSE TrimEnd(SubSeq(s, 1, Len(s) - 1))

Trim(s) == TrimEnd(Drop(s, SpacePrefixLen(s)))

\* What repl.readline returns: a line, or an error.
Line(text) == [type |-> "Ok", text |-> text]
Interrupted == [type |-> "Interrupted", text |-> NoText]
Eof == [type |-> "Eof", text |-> NoText]
ReadError == [type |-> "ReadError", text |-> NoText]

\* run, the head of the loop: readline; an error breaks the loop; the line is
\* trimmed, an empty one is skipped and any other is added to the history
\* (FileHistory keeps it in memory, which does not fail) and is to be compiled.
Readline(ev) ==
    /\ lpc = "readline"
    /\ IF ev.type # "Ok"
       THEN /\ lpc' = "ended"
            /\ ending' = ev.type
            /\ UNCHANGED <<rline, nlines>>
       ELSE /\ nlines < MaxLines
            /\ nlines' = nlines + 1
            /\ rline' = Trim(ev.text)
            /\ lpc' = IF Trim(ev.text) = NoText THEN "readline" ELSE "compile"
            /\ UNCHANGED ending
    /\ cmds' = Borrowed(cmds)
    /\ UNCHANGED <<pc, line, input, max, seen, action, lookups, visited, memo>>
    /\ UNCHANGED <<operands, merged>>
    /\ UNCHANGED diceVars
    /\ UNCHANGED rollVars

\* run: cc.compile(line)
RunCompile ==
    /\ lpc = "compile"
    /\ pc = "idle"
    /\ Compile(rline)

\* The locals of an iteration of the loop are dropped at its end: the action,
\* and what execute returned.
DropAction ==
    /\ pc' = "idle"
    /\ line' = NoText
    /\ input' = NoText
    /\ max' = None
    /\ seen' = {}
    /\ action' = NoAction
    /\ lookups' = 0
    /\ visited' = <<>>
    /\ UNCHANGED memo

DropRes ==
    /\ dparts' = NoParts
    /\ dpc' = "ready"
    /\ grammar' = "none"
    /\ dresult' = NoOutcome
    /\ rpc' = "idle"
    /\ single' = FALSE
    /\ terms' = <<>>
    /\ pos' = 1
    /\ racc' = new
    /\ rdie' = new
    /\ rolli' = 0
    /\ overrun' = FALSE
    /\ UNCHANGED <<overflowChecks, usizeSum>>

\* Command::execute fails for every command but a Builtin.
NotBuiltin(command) == command.type # "Builtin"

\* run, the match on the action: Exit breaks the loop; List, Aliases and Macros
\* are printed and an Error is reported with its suggestions, and the loop goes
\* on; the command of Execute is executed, which fails at once for a command
\* that is not a Builtin.
Dispatch ==
    /\ lpc = "compile"
    /\ pc = "done"
    /\ IF action.kind = "Exit"
       THEN /\ lpc' = "ended"
            /\ ending' = "Exit"
            /\ UNCHANGED <<pc, line, input, max, seen, action, lookups, visited, memo>>
       ELSE IF action.kind = "Execute" /\ ~NotBuiltin(action.cmd)
       THEN /\ lpc' = "execute"
            /\ UNCHANGED <<ending, pc, line, input, max, seen, action, lookups, visited, memo>>
       ELSE /\ lpc' = "readline"
            /\ DropAction
            /\ UNCHANGED ending
    /\ cmds' = Borrowed(cmds)
    /\ UNCHANGED <<operands, merged, rline, nlines>>
    /\ UNCHANGED diceVars
    /\ UNCHANGED rollVars

\* Command::execute, Builtin: cmd.execute(input), with the text of the action.
RunExecute ==
    /\ lpc = "execute"
    /\ \E lead \in Leads, parts \in ExecParts :
           /\ lead \o TextOf(parts) = action.text
           /\ CmdExecute(action.cmd.op, lead, parts)

\* run: execute returned; the result or the error is printed and the loop goes on.
Report ==
    /\ lpc = "execute"
    /\ rpc \in {"done", "error"}
    /\ lpc' = "readline"
    /\ cmds' = Borrowed(cmds)
    /\ DropAction
    /\ DropRes
    /\ UNCHANGED <<operands, merged, rline, nlines, ending>>

\* execute panicked: the panic unwinds through run and ends the process.
Abort ==
    /\ lpc = "execute"
    /\ rpc = "panic"
    /\ lpc' = "ended"
    /\ ending' = "Panic"
    /\ cmds' = Borrowed(cmds)
    /\ UNCHANGED <<pc, line, input, max, seen, action, lookups, visited, memo>>
    /\ UNCHANGED <<operands, merged, rline, nlines>>
    /\ UNCHANGED diceVars
    /\ UNCHANGED rollVars

\* The lines that are typed.
RunTexts ==
    {<<"d", "i", "c", "e", " ", "D", "2">>,
     <<"d", "i", "c", "e", " ", "D", "2", " ", "-", "1">>,
     <<"d", "i", "c", "e", " ", "D", "6", " ", "+", "1", "0", "0", " ", "+", "1", "0", "0">>,
     <<" ", "d", "o", "o", "m", " ", "+", "1", " ">>,
     <<"d", "o", "o", "m">>,
     <<"o", "p", "e", "n", " ", "D", "1">>,
     <<"o", "p", "e", "n", " ", "D", "2">>,
     <<"d", "i", "c", "e", " ", "D">>,
     <<"d", "i", "c", "e", " ", "3", "D", "6", " ", "f", "o", "o">>,
     <<"f", "r", "o", "b", "n", "i", "c", "a", "t", "e">>,
     <<"e", "x", "i", "t">>,
     <<"l", "i", "s", "t">>,
     <<>>,
     <<" ", " ">>,
     <<"+", "1">>}

ReadEvents == {Line(text) : text \in RunTexts} \cup {Interrupted, Eof, ReadError}

\* ------------------------------------------------------------------ specifications

Init ==
    /\ cmds \in Registries
    /\ InitCompiler
    /\ overflowChecks = FALSE
    /\ dparts = [count |-> NoText, sep |-> NoText, size |-> NoText, bonus |-> NoText]
    /\ InitDice
    /\ usizeSum = TRUE
    /\ InitRoll
    /\ InitRun

Next ==
    \/ \E l \in Lines : Compile(l)
    \/ Recurse

\* Every compile call of a registry on a line.
Spec == Init /\ [][Next]_vars

\* Sequences of compile calls, one of the earlier calls being remembered.
NextCalls ==
    \/ \E l \in CallLines : Compile(l)
    \/ Recurse
    \/ Remember

SpecCalls == Init /\ [][NextCalls]_vars

\* Sequences of compile calls of lines with the same leading token and
\* different arguments.
InitArgs ==
    /\ cmds \in ArgRegistries
    /\ InitCompiler
    /\ overflowChecks = FALSE
    /\ dparts = NoParts
    /\ InitDice
    /\ usizeSum = TRUE
    /\ InitRoll
    /\ InitRun

NextArgs ==
    \/ \E l \in ArgLines : Compile(l)
    \/ Recurse
    \/ Remember

SpecArgs == InitArgs /\ [][NextArgs]_vars

\* A dice expression is parsed, in a build with or without overflow checks.
InitParse ==
    /\ cmds = builtin_commands
    /\ InitCompiler
    /\ overflowChecks \in BOOLEAN
    /\ dparts \in DiceParts
    /\ InitDice
    /\ usizeSum = TRUE
    /\ InitRoll
    /\ InitRun

NextParse ==
    \/ ParseDice
    \/ ParseOpen

SpecParse == InitParse /\ [][NextParse]_vars

\* A dice or a set of dice is rolled, or a command executed, in any build.
InitRolling ==
    /\ cmds = builtin_commands
    /\ InitCompiler
    /\ overflowChecks \in BOOLEAN
    /\ dparts = [count |-> NoText, sep |-> NoText, size |-> NoText, bonus |-> NoText]
    /\ InitDice
    /\ usizeSum \in BOOLEAN
    /\ InitRoll
    /\ InitRun

NextRoll ==
    \/ \E d \in DiceInputs : DiceRoll(d)
    \/ \E ds \in SetInputs : DiceSetRoll(ds)
    \/ \E c \in {"Dice", "Open", "Invalid"}, lead \in Leads, parts \in ExecParts :
           CmdExecute(c, lead, parts)
    \/ \E b \in BOOLEAN : Flip(b)
    \/ \E a \in ResInputs, rhs \in ResInputs : ResAdd(a, rhs)

SpecRoll == InitRolling /\ [][NextRoll]_vars

\* The open command is executed; the random source yields every face that
\* internal_roll can return again and again.
NextOpen ==
    \/ \E lead \in Leads, parts \in OpenParts : CmdExecute("Open", lead, parts)
    \/ \E b \in BOOLEAN : Flip(b)

SpecOpenFair ==
    /\ InitRolling
    /\ [][NextOpen]_vars
    /\ \A face \in 1..MaxSize : SF_vars(Flip(TRUE) /\ rolli = face - 1)

\* The engine is made, lists of commands are merged into it and it is run, in
\* any build.
InitEngine ==
    /\ cmds = builtin_commands
    /\ InitCompiler
    /\ overflowChecks \in BOOLEAN
    /\ dparts = NoParts
    /\ InitDice
    /\ usizeSum \in BOOLEAN
    /\ InitRoll
    /\ InitRun

NextEngine ==
    \/ \E es \in AliasLists : Merge(es)
    \/ Run
    \/ \E ev \in ReadEvents : Readline(ev)
    \/ RunCompile
    \/ Recurse
    \/ Dispatch
    \/ RunExecute
    \/ \E b \in BOOLEAN : Flip(b)
    \/ Report
    \/ Abort

SpecEngine == InitEngine /\ [][NextEngine]_vars

\* ------------------------------------------------------------------ properties

Last(s) == s[Len(s)]

\* The leading token of a text, and what follows it.
TokenOf(s) == SubSeq(s, 1, AlnumPrefixLen(s))
ArgsOf(s) == Drop(s, AlnumPrefixLen(s))

Bound(name) == name \in DOMAIN cmds

IsAliasOrMacro(name) == Bound(name) /\ cmds[name].type \in {"Alias", "Macro"}

\* The name the body of an alias or macro starts with.
TargetOf(name) == TokenOf(cmds[name].cmd)

\* a targets b and b targets a; a = b is the alias that targets itself.
MutualAliases(a) ==
    /\ IsAliasOrMacro(a)
    /\ IsAliasOrMacro(TargetOf(a))
    /\ TargetOf(TargetOf(a)) = a

\* C1: when alias A targets B and B targets A (or A targets itself), compile of a
\* line that starts with A returns Error(CycleDetected) after at most three
\* lookups: it neither returns MaxRecursionReached nor goes on.
C1_CycleOfTwo ==
    MutualAliases(TokenOf(line)) =>
        /\ lookups <= 3
        /\ pc = "done" =>
              /\ action.kind = "Error"
              /\ action.err = CycleDetected
              /\ action.err # MaxRecursionReached

C1_Witness ==
    /\ pc = "done"
    /\ cmds = CycleRegistry
    /\ line = <<"A">>
    /\ visited = <<<<"A">>, <<"B">>, <<"A">>>>
    /\ action = Error(CycleDetected, <<"A">>)

\* The registry of the built-ins and a chain of n nested macros (or aliases)
\* m1 -> ... -> mn -> builtin.
IsChainTo(n, builtin) ==
    \E style \in {"Alias", "Macro"} :
        cmds = merge(BaseRegistry, ChainEntries(style, n, builtin))

\* C2: compile of the head of a chain of MAX_RECUR nested macros ending in a
\* builtin returns Error(MaxRecursionReached); the head of a chain of
\* MAX_RECUR - 1 nested macros resolves to Execute of the builtin.
C2_DepthBound ==
    \A b \in {dice, open} :
        (pc = "done" /\ TokenOf(line) = ChainName(1)) =>
            /\ IsChainTo(MAX_RECUR, b) =>
                  (action.kind = "Error" /\ action.err = MaxRecursionReached)
            /\ IsChainTo(MAX_RECUR - 1, b) =>
                  (action.kind = "Execute" /\ action.cmd = builtin_commands[b])

C2_Witness ==
    /\ pc = "done"
    /\ line = ChainName(1)
    /\ cmds = merge(BaseRegistry, ChainEntries("Macro", MAX_RECUR, dice))
    /\ lookups = MAX_RECUR
    /\ action.err = MaxRecursionReached

\* The remainders of the bodies of the names looked up before the last one, the
\* last expanded first.
RECURSIVE Remainders(_)
Remainders(names) ==
    IF Len(names) <= 1 THEN <<>>
    ELSE Remainders(Tail(names)) \o ArgsOf(cmds[Head(names)].cmd)

\* C3: the text carried by Execute is the remainders of the expanded bodies, the
\* last expanded first, followed by the arguments of the line; with
\* mouv = "move +7" and move = "dice 3D6 -9", compile("mouv +1") is
\* Execute(dice, " 3D6 -9 +7 +1").
C3_ArgsKept ==
    (pc = "done" /\ action.kind = "Execute") =>
        /\ action.text = Remainders(visited) \o ArgsOf(line)
        /\ (cmds = MouvRegistry /\ line = mouv \o <<" ", "+", "1">>) =>
              action = Execute(Builtin(dice, "Dice"),
                               <<" ", "3", "D", "6", " ", "-", "9", " ", "+", "7", " ", "+", "1">>)

C3_Witness ==
    /\ pc = "done"
    /\ cmds = MouvRegistry
    /\ line = mouv \o <<" ", "+", "1">>
    /\ visited = <<mouv, move, dice>>
    /\ action.kind = "Execute"

\* C4: a leading token that is no key of the registry, compared exactly and
\* with its case, ends the call with Error(UnknownCommand), be it the token of
\* the line or the token of an expanded body.
C4_UnknownCommand ==
    \A i \in 1..Len(visited) :
        ~Bound(visited[i]) =>
            /\ i = Len(visited)
            /\ pc = "done"
            /\ action = Error(UnknownCommand, NoText)

C4_Witness ==
    /\ pc = "done"
    /\ Len(visited) >= 2
    /\ Last(visited) = EXIT
    /\ Bound(exit)
    /\ action = Error(UnknownCommand, NoText)

Terminal == {"Builtin", "Exit", "List", "Aliases", "Macros"}

\* C5: the lookup of a name bound to a Builtin or to Exit, List, Aliases or
\* Macros is the last one of the call; the Builtin gives Execute(it, the text
\* that followed the name), the others the Action of their name, with or without
\* arguments, typed or reached through aliases and macros.
C5_TerminalCommands ==
    \A i \in 1..Len(visited) :
        (Bound(visited[i]) /\ cmds[visited[i]].type \in Terminal) =>
            /\ i = Len(visited)
            /\ pc = "done"
            /\ IF cmds[visited[i]].type = "Builtin"
               THEN action = Execute(cmds[visited[i]], ArgsOf(input))
               ELSE action = Control(cmds[visited[i]].type)

C5_Witness ==
    /\ pc = "done"
    /\ Len(visited) >= 2
    /\ Last(visited) = exit
    /\ ArgsOf(input) # NoText
    /\ action = Control("Exit")

\* C6: a compile call returns the Action that an earlier call of the same line
\* returned, whatever was compiled in between.
C6_SameInputSameAction ==
    (pc = "done" /\ memo # NoMemo /\ memo.line = line) => memo.action = action

C6_Witness ==
    /\ pc = "done"
    /\ memo.line = line
    /\ memo.action = action
    /\ action.kind = "Error"
    /\ action.err = CycleDetected

\* C7: a compile call makes at most MAX_RECUR registry lookups, every
\* invocation of recurse either returning or making one more lookup, and it
\* returns Execute, a control Action or an Error.
C7_Terminates ==
    /\ [](lookups <= MAX_RECUR)
    /\ [](pc = "done" => action.kind \in {"Execute", "Exit", "List", "Aliases", "Macros", "Error"})
    /\ [][pc = "recurse" =>
            (pc' = "done" \/ (pc' = "recurse" /\ lookups' = lookups + 1))]_vars

C7_Witness ==
    /\ pc = "done"
    /\ lookups = MAX_RECUR
    /\ action.kind = "Execute"

\* C8: the lookup of a name that was looked up before in the same call is the
\* last one: the call returns Error(CycleDetected) for that name at once, not
\* MaxRecursionReached.
C8_RevisitIsCycle ==
    \A i, j \in 1..Len(visited) :
        (i < j /\ visited[i] = visited[j]) =>
            /\ j = Len(visited)
            /\ pc = "done"
            /\ action = Error(CycleDetected, visited[j])

C8_Witness ==
    /\ pc = "done"
    /\ Len(visited) = MAX_RECUR
    /\ Last(visited) = visited[3]
    /\ action.err = CycleDetected

\* ---- dice parser

RECURSIVE ExactSum(_)
ExactSum(bs) == IF bs = <<>> THEN 0 ELSE Head(bs) + ExactSum(Tail(bs))

\* The sizes written in the dice expressions.
Sizes == {0, 6, 100, 2147483647}

\* C9: "n D size" with n in 1..99, followed by no bonus term or by bonus terms
\* that sum to zero, parses to exactly n Regular(size) terms and nothing else.
C9_CountCopies ==
    (dpc = "parsed" /\ grammar = "dice" /\ dparts.sep \in {<<"D">>, <<"d">>}) =>
        \A n \in 1..99 :
            dparts.count = DecimalText(n) =>
                \A size \in Sizes :
                    dparts.size = DecimalText(size) =>
                        \A bs \in BonusLists :
                            (dparts.bonus = BonusText(bs) /\ ExactSum(bs) = 0) =>
                                dresult = [status |-> "Ok",
                                           ds |-> [i \in 1..n |-> Regular(size)]]

\* C10: "D size ...", "d size ..." and "1D size ..." parse alike, to one
\* Regular term when they parse, whatever the size and the bonus suffix.
C10_DefaultCount ==
    (/\ dpc = "parsed"
     /\ grammar = "dice"
     /\ dparts.count \in {NoText, <<"1">>}
     /\ dparts.sep \in {<<"D">>, <<"d">>})
    => /\ dresult = DiceSetParse(<<"1", "D">> \o dparts.size \o dparts.bonus)
       /\ dresult = DiceSetParse(<<"D">> \o dparts.size \o dparts.bonus)
       /\ dresult = DiceSetParse(<<"d">> \o dparts.size \o dparts.bonus)
       /\ dresult.status = "Ok" =>
             Cardinality({i \in 1..Len(dresult.ds) : dresult.ds[i].type = "Regular"}) = 1

C10_Witness ==
    /\ dpc = "parsed"
    /\ grammar = "dice"
    /\ dparts = [count |-> NoText, sep |-> <<"d">>, size |-> <<"6">>,
                 bonus |-> <<" ", "+", "2", " ", "+", "1">>]
    /\ dresult = [status |-> "Ok", ds |-> <<Regular(6), Bonus(3)>>]

\* The Bonus term of the exact sum of the bonus terms bs: none when it is zero.
NetBonus(bs) == IF ExactSum(bs) # 0 THEN <<Bonus(ExactSum(bs))>> ELSE <<>>

\* C11: the bonus terms of a dice expression are summed into one net bonus, and
\* the DiceSet is the dice followed by a single Bonus(net) when net is not zero,
\* by nothing when it is zero: "D6 +2 +1" gives [Regular(6), Bonus(3)] and
\* "D6 +1 +2 -3" gives [Regular(6)].
C11_NetBonus ==
    (dpc = "parsed" /\ grammar = "dice") =>
        \A bs \in BonusLists :
            dparts.bonus = BonusText(bs) =>
                LET dices == DiceSetParse(dparts.count \o dparts.sep \o dparts.size)
                IN  dices.status = "Ok" =>
                        dresult = [status |-> "Ok", ds |-> dices.ds \o NetBonus(bs)]

\* The suffixes that are no bonus terms.
NoBonusTexts == {<<" ", "f", "o", "o">>, <<" ", "-", "-", "1", "2", "8">>}

\* C12: DiceSet::parse fails and returns no DiceSet when the separator is
\* missing, when the size is missing or is no number of the size's type, or when
\* what follows the dice is no bonus term ("3D6 foo").
C12_ParseFails ==
    (/\ dpc = "parsed"
     /\ grammar = "dice"
     /\ \/ dparts.sep = NoText
        \/ dparts.size = NoText
        \/ dparts.bonus \in NoBonusTexts)
    => dresult = [status |-> "Err", ds |-> <<>>]

\* C13: the open grammar gives one Open(size), followed by Bonus(net) when the
\* net bonus is not zero and by nothing else; the set never holds a second Open
\* nor a Regular.
C13_OpenGrammar ==
    (dpc = "parsed" /\ grammar = "open") =>
        /\ \A bs \in BonusLists :
               dparts.bonus = BonusText(bs) =>
                   LET dices == Outcome(parse_open(dparts.count \o dparts.sep \o dparts.size))
                   IN  dices.status = "Ok" =>
                           /\ Len(dices.ds) = 1
                           /\ dresult = [status |-> "Ok", ds |-> dices.ds \o NetBonus(bs)]
        /\ dresult.status = "Ok" =>
               /\ Cardinality({k \in 1..Len(dresult.ds) : dresult.ds[k].type = "Open"}) = 1
               /\ \A k \in 1..Len(dresult.ds) : dresult.ds[k].type # "Regular"

\* C14: the parser does not abort, and the net bonus of bonus terms that are
\* each within the signed 8-bit range is their exact sum, not the sum modulo
\* 2^8: "D6 +100 +100" gives the net bonus 200 or a parse error.
C14_ExactBonus ==
    dpc = "parsed" =>
        /\ dresult.status \in {"Ok", "Err"}
        /\ \A bs \in BonusLists :
               (dparts.bonus = BonusText(bs) /\ dresult.status = "Ok") =>
                   \A k \in 1..Len(dresult.ds) :
                       dresult.ds[k].type = "Bonus" => dresult.ds[k].n = ExactSum(bs)

\* ---- rolling

\* The only term of the set being rolled, when it has one term.
OnlyTerm(type) == Len(terms) = 1 /\ terms[1].type = type

\* C15: after the roll of an open dice of size n >= 1, rolled alone or as a set
\* of one, the rolls are not empty, every roll but the last is n, the last is
\* less than n, and so the sum is less than n times the number of rolls.
C15_OpenStructure ==
    (rpc = "done" /\ OnlyTerm("Open") /\ terms[1].n >= 1 /\ ~overrun) =>
        LET n == terms[1].n
            rolls == Result.list
        IN  /\ rolls # <<>>
            /\ \A j \in 1..(Len(rolls) - 1) : rolls[j] = n
            /\ Last(rolls) < n
            /\ Result.sum < Len(rolls) * n

C15_Witness ==
    /\ rpc = "done"
    /\ single
    /\ terms = <<Open(2)>>
    /\ rdie.list = <<2, 2, 1>>
    /\ rdie.sum = 5
    /\ ~overrun

\* The faces internal_roll(sides) can still return at iteration it.
RECURSIVE Faces(_, _)
Faces(sides, it) ==
    (IF TRUE \in biased_dice(sides, it) THEN {it + 1} ELSE {})
    \cup (IF FALSE \in biased_dice(sides, it) THEN Faces(sides, it + 1) ELSE {})

\* C16: the roll of an open dice of any size n >= 1 that the open grammar
\* accepts, "D1" included, stops, when the random source yields every face of
\* the dice again and again: one of the faces ends the roll, and the roll
\* that was started leads to a roll that is done.
C16_OpenTerminates ==
    /\ [](\A n \in 1..MaxSize :
            (rpc = "rolling" /\ terms = <<Open(n)>>) =>
                \E face \in Faces(n, 0) : Break(face, n))
    /\ \A n \in 1..MaxSize :
           (rpc = "rolling" /\ terms = <<Open(n)>>) ~> (rpc = "done")

\* Res::natural
natural(res) == Len(res.list) = 1 /\ res.flag = "Natural"

\* C17: the roll of one regular dice of size n >= 1 is one roll v in 1..n, with
\* sum v and bonus 0; the flag is Fumble when v is 1 and Natural otherwise.
C17_RegularRoll ==
    (rpc = "done" /\ single /\ OnlyTerm("Regular") /\ terms[1].n >= 1) =>
        \E v \in 1..terms[1].n :
            /\ rdie = [list |-> <<v>>, sum |-> v, bonus |-> 0,
                       flag |-> IF v = 1 THEN "Fumble" ELSE "Natural"]
            /\ natural(rdie) <=> v # 1

C17_Witness ==
    /\ rpc = "done"
    /\ single
    /\ terms = <<Regular(6)>>
    /\ rdie = [list |-> <<1>>, sum |-> 1, bonus |-> 0, flag |-> "Fumble"]

\* The total of the Bonus terms of a set.
RECURSIVE BonusTotal(_)
BonusTotal(ts) ==
    IF ts = <<>> THEN 0
    ELSE (IF Head(ts).type = "Bonus" THEN Head(ts).n ELSE 0) + BonusTotal(Tail(ts))

IsDice(d) == d.type # "Bonus"

\* The text "3D6 +1" was executed as a dice command.
Executed3D6Plus1 ==
    /\ grammar = "Dice"
    /\ TextOf(dparts) \in {lead \o <<"3", "D", "6", " ", "+", "1">> : lead \in Leads}

C19_RegularSet ==
    (/\ ~single
     /\ rpc \in {"done", "panic"}
     /\ terms # <<>>
     /\ Last(terms).type = "Bonus"
     /\ \A k \in 1..(Len(terms) - 1) : terms[k].type = "Regular" /\ terms[k].n = terms[1].n
     /\ (Len(terms) > 1 => terms[1].n >= 1))
    => /\ rpc = "done"
       /\ Len(racc.list) = Len(terms) - 1
       /\ \A j \in 1..Len(racc.list) : racc.list[j] \in 1..terms[1].n
       /\ racc.bonus = Last(terms).n

\* C20 (as stated): Constant(n) rolled alone gives the rolls [n] and the sum n;
\* as a term of a set it adds n to the sum and nothing to the rolls, which
\* hold the rolls of the dice that draw.
C20_ConstantAsymmetric ==
    rpc = "done" =>
        /\ (single /\ OnlyTerm("Constant")) =>
               (rdie.list = <<terms[1].n>> /\ rdie.sum = terms[1].n)
        /\ (~single /\ \A k \in 1..Len(terms) : terms[k].type # "Open") =>
               Len(racc.list) = Len(SelectSeq(terms, Draws))

\* C20 (amended): Constant(n) is appended to the rolls on both paths: rolled
\* alone it gives the rolls [n] and the sum n, and as a term of a set it
\* is in the rolls of the set at the place of the term and adds n to the sum.
C20_ConstantAppended ==
    rpc = "done" =>
        /\ (single /\ OnlyTerm("Constant")) =>
               rdie = [list |-> <<terms[1].n>>, sum |-> terms[1].n, bonus |-> 0, flag |-> "None"]
        /\ (~single /\ \A k \in 1..Len(terms) : terms[k].type # "Open") =>
               LET dices == SelectSeq(terms, IsDice)
               IN  /\ Len(racc.list) = Len(dices)
                   /\ \A j \in 1..Len(dices) :
                          dices[j].type = "Constant" => racc.list[j] = dices[j].n
                   /\ racc.sum = ExactSum(racc.list) + racc.bonus

C20_Witness ==
    /\ rpc = "done"
    /\ ~single
    /\ terms = <<Regular(2), Constant(4), Bonus(1)>>
    /\ racc = [list |-> <<2, 4>>, sum |-> 7, bonus |-> 1, flag |-> "None"]

\* The rolls l from place q on are those of the terms ts from term p on, in the
\* order of the terms: nothing for a Bonus, n for Constant(n), one roll of a
\* regular dice, the rolls of an open dice up to the first that is not its size.
RECURSIVE InTermOrder(_, _, _, _)
InTermOrder(ts, p, l, q) ==
    IF p > Len(ts) THEN q = Len(l) + 1
    ELSE IF ts[p].type = "Bonus" THEN InTermOrder(ts, p + 1, l, q)
    ELSE IF q > Len(l) THEN FALSE
    ELSE IF ts[p].type = "Constant" THEN l[q] = ts[p].n /\ InTermOrder(ts, p + 1, l, q + 1)
    ELSE IF ts[p].type = "Open" /\ l[q] = ts[p].n THEN InTermOrder(ts, p, l, q + 1)
    ELSE l[q] \in Faces(ts[p].n, 0) /\ InTermOrder(ts, p + 1, l, q + 1)

\* a + rhs was evaluated.
Adding == rpc = "added" \/ operands # <<new, new>>

\* C21: for any results a and b, a + b is a result with the rolls of a followed
\* by those of b, the sum a.sum + b.sum, the bonus a.bonus + b.bonus and the
\* flag None; so the roll of a set has its rolls in the order of its terms and
\* the flag None, a set of one dice included.
C21_Add ==
    /\ Adding =>
           /\ rpc = "added"
           /\ racc = [list |-> operands[1].list \o operands[2].list,
                      sum |-> operands[1].sum + operands[2].sum,
                      bonus |-> operands[1].bonus + operands[2].bonus,
                      flag |-> "None"]
    /\ (~single /\ rpc = "done" /\ ~overrun) =>
           /\ racc.flag = "None"
           /\ InTermOrder(terms, 1, racc.list, 1)

\* The lists of commands one after the other.
RECURSIVE Flatten(_)
Flatten(lists) == IF lists = <<>> THEN <<>> ELSE Head(lists) \o Flatten(Tail(lists))

IsMacroOrAlias(command) == command.type \in {"Macro", "Alias"}

\* C22: after any sequence of merge calls the registry binds exactly the names
\* of the built-in table and of the Macro and Alias entries that were merged,
\* each to one command: a name of the entries to the last entry merged under
\* it, whatever it was bound to before, and every other name to what it was
\* bound to before the calls.
C22_Merge ==
    LET es == SelectSeq(Flatten(merged), IsMacroOrAlias)
        names == {es[k].name : k \in 1..Len(es)}
        last(name) == CHOOSE k \in 1..Len(es) :
                          es[k].name = name /\ \A j \in (k + 1)..Len(es) : es[j].name # name
    IN  /\ DOMAIN cmds = DOMAIN builtin_commands \cup names
        /\ \A name \in names : cmds[name] = es[last(name)]
        /\ \A name \in DOMAIN cmds \ names : cmds[name] = builtin_commands[name]

\* Two lists were merged: doom was bound by an alias and then by a macro, and
\* dice, a name of the built-in table, by an alias.
C22_Witness ==
    /\ Len(merged) = 2
    /\ doom \in DOMAIN cmds
    /\ cmds[doom] = Macro(doom, <<"o", "p", "e", "n", " ", "D", "1">>)
    /\ cmds[dice] = Alias(dice, open)
    /\ cmds[exit] = Special("Exit")

\* C23: once run is entered the registry is not written: no step of the loop,
\* of a compile call or of the execution of an action adds, removes or rebinds
\* a name, so every line is compiled with the registry that startup left.
C23_ReadOnly == [][lpc # "startup" => cmds' = cmds]_vars

\* The second line was compiled and executed with a registry that holds a
\* merged macro, after a first line that was executed as well.
C23_Witness ==
    /\ nlines = 2
    /\ lpc = "execute"
    /\ rpc = "done"
    /\ visited = <<doom, dice>>
    /\ cmds = merge(builtin_commands, merged[1])
    /\ Len(racc.list) = 3

\* C24: the lookup of a name bound to a command that is neither a Builtin, nor
\* Exit, List, Aliases or Macros, nor an Alias or a Macro (a Comment) is the
\* last one of the call, which returns the error "impossible in recurse":
\* nothing is executed and the chain is not followed further.
C24_InvalidBuiltin ==
    \A i \in 1..Len(visited) :
        (Bound(visited[i]) /\ cmds[visited[i]].type \notin Terminal \cup {"Alias", "Macro"}) =>
            /\ i = Len(visited)
            /\ pc = "done"
            /\ action = Error(InvalidBuiltin, NoText)

\* A chain of aliases or macros led to the name bound to Comment.
C24_Witness ==
    /\ pc = "done"
    /\ Len(visited) >= 3
    /\ Last(visited) = rem
    /\ cmds[rem] = Special("Comment")
    /\ ArgsOf(input) # NoText
    /\ action = Error(InvalidBuiltin, NoText)

\* C25: no error ends the loop of run. It has ended only after compile
\* returned Exit or readline returned an interrupt, the end of the input or an
\* error: a line that compile gave an Error for, or whose execution failed, is
\* followed by the next readline; and readline is called only when the line
\* before it is compiled and executed to its end.
C25_NoFatalError ==
    /\ lpc = "ended" =>
           /\ ending \in {"Exit", "Interrupted", "Eof", "ReadError"}
           /\ ending = "Exit" <=> action = Control("Exit")
    /\ lpc = "readline" => (pc = "idle" /\ dpc = "ready" /\ rpc = "idle")
    /\ (lpc = "compile" /\ pc = "done") => action # NoAction
    /\ lpc = "execute" => (pc = "done" /\ action.kind = "Execute")

\* C27: for sides >= 1, whatever the coin flips give, internal_roll(sides)
\* makes at most sides iterations, i = 0 .. sides - 1, so that sides - i is
\* never 0; the flip of iteration sides - 1 cannot fail; and the value it
\* returns is in 1..sides.
C27_InternalRollBound ==
    /\ (rpc = "rolling" /\ terms[pos].n >= 1) =>
           /\ rolli \in 0..(terms[pos].n - 1)
           /\ rolli = terms[pos].n - 1 => biased_dice(terms[pos].n, rolli) = {TRUE}
    /\ (rpc = "done" /\ terms # <<>> /\ \A k \in 1..Len(terms) : terms[k].type = "Regular" /\ terms[k].n >= 1) =>
           /\ Len(Result.list) = Len(terms)
           /\ \A k \in 1..Len(terms) : Result.list[k] \in 1..terms[k].n

\* A dice of the largest size rolled its size, which takes as many flips.
C27_Witness ==
    /\ rpc = "done"
    /\ single
    /\ terms = <<Regular(MaxSize)>>
    /\ rdie.list = <<MaxSize>>

\* C28: the command of an Execute action that compile returns is a Builtin, the
\* one bound to the last name looked up, never an Alias, a Macro, a Comment or
\* a control command; so Command::execute does not refuse it.
C28_ExecuteBuiltin ==
    action.kind = "Execute" =>
        /\ pc = "done"
        /\ action.cmd.type = "Builtin"
        /\ action.cmd = cmds[Last(visited)]
        /\ ~NotBuiltin(action.cmd)

\* The open builtin was reached through aliases or macros.
C28_Witness ==
    /\ pc = "done"
    /\ Len(visited) >= 2
    /\ action.kind = "Execute"
    /\ action.cmd = Builtin(open, "Open")

\* Two actions of the same kind: the same builtin, the same control action or
\* the same error; the text they carry may differ.
SameKind(a, b) == a.kind = b.kind /\ a.cmd = b.cmd /\ a.err = b.err

\* C29: two compile calls of lines with the same leading token look up the same
\* names in the same order and return actions of the same kind, whatever
\* follows the token in either line.
C29_ArgsIgnored ==
    (pc = "done" /\ memo # NoMemo /\ TokenOf(memo.line) = TokenOf(line)) =>
        /\ memo.visited = visited
        /\ SameKind(memo.action, action)

\* The head of a chain was compiled without and with arguments: the same
\* builtin is to be executed, on different texts.
C29_Witness ==
    /\ pc = "done"
    /\ memo.line = ChainName(1)
    /\ line = ChainName(1) \o <<"+", "2">>
    /\ Len(visited) >= 3
    /\ action.kind = "Execute"
    /\ memo.action.text # action.text

\* C30: the roll of a set that holds a Bonus(b) with b < 0 returns, with the
\* bonus of its terms, and without a sum that leaves the range of its type:
\* where the bonus is the last term, as the parser puts it, adding it to the
\* sum of the dice neither overflows nor wraps.
C30_NegativeBonus ==
    (/\ ~single
     /\ rpc \in {"done", "panic"}
     /\ dresult.status # "Panic"
     /\ \E k \in 1..Len(terms) : terms[k].type = "Bonus" /\ terms[k].n < 0)
    => /\ rpc = "done"
       /\ racc.bonus = BonusTotal(terms)
       /\ (usizeSum /\ Last(terms).type = "Bonus") =>
              ~UsizeOverflows(racc.sum - Last(terms).n, Last(terms).n)
====
